---------------------------- MODULE Spec2Model ----------------------------
(***************************************************************************)
(* Model of the Prometheus -> CachetHQ webhook bridge (webserver.go).      *)
(*                                                                         *)
(* SubmitAlert is modelled as a process per request: every call to the     *)
(* Cachet client is one atomic step together with the branch taken on its  *)
(* result; the loop's lookup and dedup of an alert is a step of its own.   *)
(* The Cachet backend (the client's five calls) is modelled from its       *)
(* interface: an incident list, newest first.  Every call may fail.        *)
(***************************************************************************)
EXTENDS Integers, Sequences, FiniteSets, TLC

\* ------------------------------------------------------------------ bounds
\* requests are taken while the backend holds fewer incidents than this
MaxIncidents == 3
\* longest "alerts" array of a payload
MaxAlerts == 2

\* ------------------------------------------------------- program constants
StatusOK == 200
StatusBadRequest == 400
\* status := 1 // "resolved"
Resolved == 1
\* status = 4 (firing)
Firing == 4

\* request handlers; the sequential specification runs the first one only
Procs == {1, 2}
Serial == {1}

\* --------------------------------------------------------------- time.Parse
\* A timestamp is the sequence of its characters.
DigitVal(c) ==
    CASE c = "0" -> 0 [] c = "1" -> 1 [] c = "2" -> 2 [] c = "3" -> 3
      [] c = "4" -> 4 [] c = "5" -> 5 [] c = "6" -> 6 [] c = "7" -> 7
      [] c = "8" -> 8 [] c = "9" -> 9 [] OTHER -> -1

\* isDigit(s, i) of package time (i counts from 1 here)
IsDigit(s, i) == i <= Len(s) /\ DigitVal(s[i]) >= 0

\* getnum(s, fixed) of package time at position i: <<ok, value, next position>>
GetNum(s, i, fixed) ==
    IF ~IsDigit(s, i) THEN <<FALSE, 0, i>>
    ELSE IF ~IsDigit(s, i + 1)
         THEN IF fixed THEN <<FALSE, 0, i>> ELSE <<TRUE, DigitVal(s[i]), i + 1>>
         ELSE <<TRUE, DigitVal(s[i]) * 10 + DigitVal(s[i + 1]), i + 2>>

\* cutspace(s) of package time from position i: the position after the run
\* of spaces
RECURSIVE CutSpace(_, _)
CutSpace(s, i) == IF i <= Len(s) /\ s[i] = " " THEN CutSpace(s, i + 1) ELSE i

\* skip(value, prefix) of package time for a one-character prefix c of the
\* layout, value being s from position i: <<ok, next position>>.  A space of
\* the layout stands for a run of spaces of the value (an exhausted value
\* included); any other character stands for itself.
Skip(s, i, c) ==
    IF c = " "
    THEN IF i <= Len(s) /\ s[i] # " " THEN <<FALSE, i>> ELSE <<TRUE, CutSpace(s, i)>>
    ELSE IF i > Len(s) \/ s[i] # c THEN <<FALSE, i>> ELSE <<TRUE, i + 1>>

\* commaOrPeriod(value[0]) of package time, value being s from position i
CommaOrPeriod(s, i) == i <= Len(s) /\ s[i] \in {".", ","}

IsLeap(y) == y % 4 = 0 /\ (y % 100 # 0 \/ y % 400 = 0)

DaysIn(m, y) ==
    IF m = 2 THEN (IF IsLeap(y) THEN 29 ELSE 28)
    ELSE IF m \in {4, 6, 9, 11} THEN 30 ELSE 31

\* days from 0000-01-01 to the first day of year y
DaysBeforeYear(y) ==
    IF y = 0 THEN 0
    ELSE 365 * y + ((y - 1) \div 4) - ((y - 1) \div 100) + ((y - 1) \div 400) + 1

RECURSIVE DaysBeforeMonth(_, _)
DaysBeforeMonth(m, y) ==
    IF m = 1 THEN 0 ELSE DaysBeforeMonth(m - 1, y) + DaysIn(m - 1, y)

\* number of fractional digits from position i on
RECURSIVE DigitRun(_, _)
DigitRun(s, i) == IF IsDigit(s, i) THEN 1 + DigitRun(s, i + 1) ELSE 0

\* the first nine fractional digits from position i, as nanoseconds
RECURSIVE NanosFrom(_, _, _)
NanosFrom(s, i, k) ==
    IF k = 0 THEN 0
    ELSE (IF IsDigit(s, i) THEN DigitVal(s[i]) ELSE 0)
           * (10 ^ (k - 1)) + NanosFrom(s, i + 1, k - 1)

\* time.Parse("2006-01-02 15:04:05", s):
\* [ok, day (days since 0000-01-01), sec (second of the day), nsec]
ParseFail == [ok |-> FALSE, day |-> 0, sec |-> 0, nsec |-> 0]

Parse(s) ==
    IF ~(IsDigit(s, 1) /\ IsDigit(s, 2) /\ IsDigit(s, 3) /\ IsDigit(s, 4))
    THEN ParseFail
    ELSE
    LET year == DigitVal(s[1]) * 1000 + DigitVal(s[2]) * 100
                  + DigitVal(s[3]) * 10 + DigitVal(s[4])
        p1   == Skip(s, 5, "-")
        mo   == GetNum(s, p1[2], TRUE)
        p2   == Skip(s, mo[3], "-")
        dd   == GetNum(s, p2[2], TRUE)
        p3   == Skip(s, dd[3], " ")
        hh   == GetNum(s, p3[2], FALSE)
        p4   == Skip(s, hh[3], ":")
        mi   == GetNum(s, p4[2], TRUE)
        p5   == Skip(s, mi[3], ":")
        ss   == GetNum(s, p5[2], TRUE)
        hasFrac == CommaOrPeriod(s, ss[3]) /\ IsDigit(s, ss[3] + 1)
        ndig == IF hasFrac THEN DigitRun(s, ss[3] + 1) ELSE 0
        end  == IF hasFrac THEN ss[3] + 1 + ndig ELSE ss[3]
    IN  IF /\ p1[1] /\ mo[1] /\ mo[2] >= 1 /\ mo[2] <= 12
           /\ p2[1] /\ dd[1]
           /\ p3[1] /\ hh[1] /\ hh[2] < 24
           /\ p4[1] /\ mi[1] /\ mi[2] < 60
           /\ p5[1] /\ ss[1] /\ ss[2] < 60
           /\ end = Len(s) + 1
           /\ dd[2] >= 1 /\ dd[2] <= DaysIn(mo[2], year)
        THEN [ok   |-> TRUE,
              day  |-> DaysBeforeYear(year) + DaysBeforeMonth(mo[2], year) + dd[2] - 1,
              sec  |-> hh[2] * 3600 + mi[2] * 60 + ss[2],
              nsec |-> IF hasFrac THEN NanosFrom(s, ss[3] + 1, 9) ELSE 0]
        ELSE ParseFail

\* the largest k with 2^k <= n, for n >= 1
RECURSIVE FloorLog2(_)
FloorLog2(n) == IF n < 2 THEN 0 ELSE 1 + FloorLog2(n \div 2)

\* Duration.Minutes() is float64(min) + float64(nsec)/(60*1e9) for min whole
\* minutes and nsec nanoseconds of remainder: the sum is rounded to the
\* nearest float64, which is the next whole minute when the remainder is
\* within half a unit in the last place of it.  short is the number of
\* nanoseconds the remainder is short of a minute.  With 2^k <= min < 2^(k+1)
\* the sum rounds up exactly when  short * 2^53 / (60*1e9) < 2^k + 1/2,
\* that is  short <= (5^10 * 3 * (2^(k+1) + 1)) \div 2^43.
MinuteOdd == 29296875
RoundsUp(min, short) ==
    /\ min >= 2 ^ 18
    /\ LET k == FloorLog2(min)
       IN  short <= (MinuteOdd + MinuteOdd \div (2 ^ (k + 1))) \div (2 ^ (42 - k))

\* int(updatedAt.Sub(createdAt).Minutes()): the float64 minutes, truncated
\* toward zero; time.Sub saturates at the largest Duration (2^63-1 ns).
MaxDurationMinutes == 153722867

DownMinutes(createdAt, updatedAt) ==
    LET dn0 == updatedAt.nsec - createdAt.nsec
        ds0 == (updatedAt.sec - createdAt.sec) + (IF dn0 < 0 THEN -1 ELSE 0)
        dn  == IF dn0 < 0 THEN dn0 + 1000000000 ELSE dn0
        dd  == (updatedAt.day - createdAt.day) + (IF ds0 < 0 THEN -1 ELSE 0)
        ds  == IF ds0 < 0 THEN ds0 + 86400 ELSE ds0
        \* the duration is dd days + ds seconds + dn nanoseconds, ds and dn >= 0
        \* largest Duration: 106751 days 85636 s 854775807 ns
        over  == dd > 106751 \/ (dd = 106751 /\ (ds > 85636
                    \/ (ds = 85636 /\ dn > 854775807)))
        \* smallest Duration: -(106751 days 85636 s 854775808 ns)
        \*   = -106752 days + 763 s + 145224192 ns
        under == dd < -106752 \/ (dd = -106752 /\ (ds < 763
                    \/ (ds = 763 /\ dn < 145224192)))
        \* |d| = ad days + as seconds + an nanoseconds, as and an >= 0
        an  == IF dd >= 0 THEN dn ELSE (IF dn > 0 THEN 1000000000 - dn ELSE 0)
        as0 == IF dd >= 0 THEN ds ELSE -ds - (IF dn > 0 THEN 1 ELSE 0)
        as  == IF as0 < 0 THEN as0 + 86400 ELSE as0
        ad  == IF dd >= 0 THEN dd ELSE -dd - (IF as0 < 0 THEN 1 ELSE 0)
        min == ad * 1440 + (as \div 60)
        up  == as % 60 = 59 /\ an > 0 /\ RoundsUp(min, 1000000000 - an)
        abs == min + (IF up THEN 1 ELSE 0)
    IN  IF over THEN MaxDurationMinutes
        ELSE IF under THEN -MaxDurationMinutes
        ELSE IF dd >= 0 THEN abs ELSE -abs

\* ---------------------------------------------------------------- inputs
T(a, b, c, d) == a \o b \o c \o d
\* "2020-01-01 10:00:00"
Stamp0 == T(<<"2","0","2","0","-">>, <<"0","1","-","0","1">>,
            <<" ","1","0",":","0","0">>, <<":","0","0">>)
\* "2020-01-01 10:42:30"
Stamp1 == T(<<"2","0","2","0","-">>, <<"0","1","-","0","1">>,
            <<" ","1","0",":","4","2">>, <<":","3","0">>)
\* "2020-01-01T10:00:00Z"
StampISO == T(<<"2","0","2","0","-">>, <<"0","1","-","0","1">>,
              <<"T","1","0",":","0","0">>, <<":","0","0","Z">>)
\* the CreatedAt and UpdatedAt strings the backend may answer ReadIncident
\* with: in the layout of the code, or in another one
Stamps == {Stamp0, Stamp1, StampISO}

\* the component directory ListComponents returns: name -> component id
Directory == ("api" :> 42) @@ ("db" :> 7)
Components == {Directory[n] : n \in DOMAIN Directory}
\* alert.Labels[config.LabelName] of an alert
LabelValues == {"api", "db", "ghost"}
\* alerts.Status of a payload
PayloadStatus == {"firing", "resolved", "pending"}

RECURSIVE SeqsUpTo(_, _)
SeqsUpTo(S, n) ==
    IF n = 0 THEN {<<>>}
    ELSE LET shorter == SeqsUpTo(S, n - 1)
         IN  shorter \cup {Append(q, x) : q \in {r \in shorter : Len(r) = n - 1}, x \in S}

Payloads == [status : PayloadStatus, alerts : SeqsUpTo(LabelValues, MaxAlerts)]

\* ----------------------------------------------------------------- state
VARIABLES
    squash,        \* config.SquashIncident
    incidents,     \* the backend's incidents, newest first
    pc,            \* per request: where SubmitAlert stands
    req,           \* per request: the decoded payload (alerts)
    status,        \* per request: status, componentStatus (always equal)
    list,          \* per request: the result of ListComponents
    alreadyFired,  \* per request: the component ids already handled
    idx,           \* per request: position of the range loop in alerts.Alerts
    incs,          \* per request: the result of SearchIncidents
    minutes,       \* per request: the downtime of the second update's message
    result,        \* per request: what c.JSON wrote
    writes,        \* per request: how many times c.JSON wrote a response
    calls,         \* per request: the backend calls issued, in order
    backendFailed  \* some backend call has failed

locals == <<req, status, list, alreadyFired, incs, minutes>>
vars == <<squash, incidents, pc, req, status, list, alreadyFired, idx, incs,
          minutes, result, writes, calls, backendFailed>>

\* a message: its text, and the values formatted into it
Msg(text, name, n) == [text |-> text, name |-> name, n |-> n]
NoMsg == Msg("", "", 0)
NoResult == [code |-> 0, msg |-> NoMsg]
NoPayload == [status |-> "", alerts |-> <<>>]
NoList == <<>>

\* one backend call, as the request issued it
Call(op, alert, name, comp, inc, st, cst, msg, ok, ret) ==
    [op |-> op, alert |-> alert, name |-> name, comp |-> comp, inc |-> inc,
     status |-> st, cstatus |-> cst, msg |-> msg, ok |-> ok, ret |-> ret]

\* err.Error() of a failed backend call
BackendErr(op) == Msg("backend error", op, 0)

\* ----------------------------------------------------------- the backend
\* SearchIncidents(componentID): the component's incidents, newest first
SearchIncidents(all, comp) == SelectSeq(all, LAMBDA i : i.comp = comp)

\* CreateIncident(name, componentID, status, componentStatus)
CreateIncident(all, comp, st) ==
    <<[id |-> Len(all) + 1, comp |-> comp, status |-> st]>> \o all

\* UpdateIncident(name, componentID, incidentID, status, message)
UpdateIncident(all, inc, st) ==
    [k \in 1..Len(all) |->
        IF all[k].id = inc THEN [all[k] EXCEPT !.status = st] ELSE all[k]]

\* ReadIncident(incidentID): the incident, with the timestamps the backend
\* reports for it
ReadIncident(all, inc, createdAt, updatedAt) ==
    LET i == CHOOSE i \in {all[k] : k \in 1..Len(all)} : i.id = inc
    IN  [id |-> i.id, comp |-> i.comp, status |-> i.status,
         createdAt |-> createdAt, updatedAt |-> updatedAt]

\* ------------------------------------------------------------ SubmitAlert
Init ==
    /\ squash \in BOOLEAN
    /\ incidents = <<>>
    /\ pc = [p \in Procs |-> "idle"]
    /\ req = [p \in Procs |-> NoPayload]
    /\ status = [p \in Procs |-> Resolved]
    /\ list = [p \in Procs |-> NoList]
    /\ alreadyFired = [p \in Procs |-> {}]
    /\ idx = [p \in Procs |-> 0]
    /\ incs = [p \in Procs |-> <<>>]
    /\ minutes = [p \in Procs |-> 0]
    /\ result = [p \in Procs |-> NoResult]
    /\ writes = [p \in Procs |-> 0]
    /\ calls = [p \in Procs |-> <<>>]
    /\ backendFailed = FALSE

\* mutant: only "resolved" gives the resolved code
StatusOfResolvedOnly(s) == IF s = "resolved" THEN Resolved ELSE Firing
\* status := 1; if alerts.Status == "firing" { status = 4 }
StatusOf(s) == IF s = "firing" THEN Firing ELSE Resolved

\* c.JSON(code, body): the response is written
JSON(p, code, msg) ==
    /\ result' = [result EXCEPT ![p] = [code |-> code, msg |-> msg]]
    /\ writes' = [writes EXCEPT ![p] = @ + 1]

\* mutant: the error is written but the return is missing
AbortNoReturn(p, msg) ==
    /\ pc' = [pc EXCEPT ![p] = "loop"]
    /\ JSON(p, StatusBadRequest, msg)
    /\ idx' = [idx EXCEPT ![p] = @ + 1]
\* c.JSON(http.StatusBadRequest, gin.H{"error": msg}); return
Abort(p, msg) ==
    /\ pc' = [pc EXCEPT ![p] = "done"]
    /\ JSON(p, StatusBadRequest, msg)
    /\ UNCHANGED idx

\* the loop body ends: on to the next alert
Advance(p) ==
    /\ pc' = [pc EXCEPT ![p] = "loop"]
    /\ idx' = [idx EXCEPT ![p] = @ + 1]
    /\ UNCHANGED <<result, writes>>

\* the request goes on to its next backend call
Goto(p, where) ==
    /\ pc' = [pc EXCEPT ![p] = where]
    /\ UNCHANGED <<idx, result, writes>>

Log(p, call) ==
    /\ calls' = [calls EXCEPT ![p] = Append(@, call)]
    /\ backendFailed' = (backendFailed \/ ~call.ok)

\* a request arrives at a handler that is not serving one
Arrive(p) ==
    /\ pc[p] = "idle"
    /\ Len(incidents) < MaxIncidents
    /\ UNCHANGED <<squash, incidents, list, alreadyFired, idx, incs, minutes, calls,
                   backendFailed>>

\* the Authorization header is not "Bearer <token>"
RejectAuth(p) ==
    /\ Arrive(p)
    /\ pc' = [pc EXCEPT ![p] = "done"]
    /\ JSON(p, StatusBadRequest, Msg("wrong Authorization header", "", 0))
    /\ UNCHANGED <<req, status>>

\* c.ShouldBindJSON fails
RejectBody(p) ==
    /\ Arrive(p)
    /\ pc' = [pc EXCEPT ![p] = "done"]
    /\ JSON(p, StatusBadRequest, Msg("bind error", "", 0))
    /\ UNCHANGED <<req, status>>

\* the payload is read and the group status derived
Accept(p) ==
    /\ Arrive(p)
    /\ \E body \in Payloads :
          /\ req' = [req EXCEPT ![p] = body]
          /\ status' = [status EXCEPT ![p] = StatusOf(body.status)]
    /\ pc' = [pc EXCEPT ![p] = "list"]
    /\ UNCHANGED <<result, writes>>

\* mutant: the dedup map of the request before is used again
StaleAlreadyFired(p) == alreadyFired[p]
\* alreadyFired := make(map[int]int)
NewAlreadyFired(p) == {}

\* mutant: the error of ListComponents is dropped
ListFailedIgnored(p) ==
    /\ pc' = [pc EXCEPT ![p] = "loop"]
    /\ idx' = [idx EXCEPT ![p] = 1]
    /\ UNCHANGED <<result, writes>>
\* if err != nil { c.JSON(http.StatusBadRequest, ...); return }
ListFailed(p) == Abort(p, BackendErr("ListComponents"))

\* list, err := config.Cachet.ListComponents()
ListComponents(p) ==
    /\ pc[p] = "list"
    /\ \E ok \in BOOLEAN :
          /\ Log(p, Call("ListComponents", 0, "", 0, 0, 0, 0, NoMsg, ok, <<>>))
          /\ IF ok
             THEN /\ list' = [list EXCEPT ![p] = Directory]
                  /\ alreadyFired' = [alreadyFired EXCEPT ![p] = NewAlreadyFired(p)]
                  /\ pc' = [pc EXCEPT ![p] = "loop"]
                  /\ idx' = [idx EXCEPT ![p] = 1]
                  /\ UNCHANGED <<result, writes>>
             ELSE /\ ListFailed(p)
                  /\ UNCHANGED <<list, alreadyFired>>
    /\ UNCHANGED <<squash, incidents, req, status, incs, minutes>>

\* the alert the loop stands at
InLoop(p) == pc[p] = "loop" /\ idx[p] <= Len(req[p].alerts)
Name(p) == req[p].alerts[idx[p]]
\* componentID, ok := list[alert.Labels[config.LabelName]]
Known(p) == Name(p) \in DOMAIN list[p]
ComponentID(p) == list[p][Name(p)]
\* mutant: the dedup map is never consulted
AlreadyFiredNever(p) == FALSE
\* alreadyFired[componentID] != 0
AlreadyFired(p) == ComponentID(p) \in alreadyFired[p]

\* the component ids the payload's alerts resolve to
Resolves(p) == {list[p][req[p].alerts[k]] :
                  k \in {j \in 1..Len(req[p].alerts) : req[p].alerts[j] \in DOMAIN list[p]}}

\* the range loop is over: c.JSON(http.StatusOK, gin.H{"status": "OK"})
Finish(p) ==
    /\ pc[p] = "loop"
    /\ idx[p] > Len(req[p].alerts)
    /\ pc' = [pc EXCEPT ![p] = "done"]
    /\ JSON(p, StatusOK, Msg("OK", "", 0))
    /\ UNCHANGED <<squash, incidents, locals, idx, calls, backendFailed>>

\* mutant: an unknown component is reported as an error
UnknownLabelError(p) == Abort(p, Msg("unknown component", Name(p), 0))
\* what an alert of an unknown component does
UnknownLabel(p) == Advance(p)

\* the label value is no key of the directory
SkipUnknown(p) ==
    /\ InLoop(p)
    /\ ~Known(p)
    /\ UnknownLabel(p)
    /\ UNCHANGED <<squash, incidents, req, status, list, alreadyFired, incs, minutes,
                   calls, backendFailed>>

\* the component was handled earlier in this invocation
SkipDuplicate(p) ==
    /\ InLoop(p)
    /\ Known(p)
    /\ AlreadyFired(p)
    /\ Advance(p)
    /\ UNCHANGED <<squash, incidents, req, status, list, alreadyFired, incs, minutes,
                   calls, backendFailed>>

\* mutant: the test of the status is inverted (status == 1 for status != 1)
BranchInverted(sq, st) ==
    IF sq THEN (IF st = Resolved THEN "searchFiring" ELSE "searchResolved")
    ELSE "createNoSquash"
\* mutant: the firing branch creates without searching
BranchNoSearch(sq, st) ==
    IF sq THEN (IF st # Resolved THEN "createFiring" ELSE "searchResolved")
    ELSE "createNoSquash"
\* the branch of a first-seen component
Branch(sq, st) ==
    IF sq THEN (IF st # Resolved THEN "searchFiring" ELSE "searchResolved")
    ELSE "createNoSquash"

\* a first-seen component: alreadyFired[componentID] = 1
Dispatch(p) ==
    /\ InLoop(p)
    /\ Known(p)
    /\ ~AlreadyFired(p)
    /\ alreadyFired' = [alreadyFired EXCEPT ![p] = @ \cup {ComponentID(p)}]
    /\ Goto(p, Branch(squash, status[p]))
    /\ UNCHANGED <<squash, incidents, req, status, list, incs, minutes, calls, backendFailed>>

\* mutant: the test for an empty search result is missing
ShouldCreateNonEmpty(found) == Len(found) > 0 /\ found[1].status = 4
\* if len(incidents) == 0 || incidents[0].Status == 4
ShouldCreate(found) == Len(found) = 0 \/ found[1].status = 4

\* fmt.Sprintf("No incident found for component %d\n", componentID)
NoIncidentMsg(comp) == Msg("No incident found for component %d\n", "", comp)

\* fmt.Sprintf("Prometheus flagged service %s as up", name)
UpMsg(name) == Msg("Prometheus flagged service %s as up", name, 0)

\* fmt.Sprintf("... %s as up (service was down for %d minutes)", name, minutes)
UpForMsg(name, m) ==
    Msg("Prometheus flagged service %s as up (service was down for %d minutes)", name, m)

\* mutant: the errors of time.Parse are not looked at
BothParsedAlways(createdAt, updatedAt) == TRUE
\* mutant: one parsed timestamp is enough
BothParsedEither(createdAt, updatedAt) == createdAt.ok \/ updatedAt.ok
\* if err1 == nil && err2 == nil
BothParsed(createdAt, updatedAt) == createdAt.ok /\ updatedAt.ok

\* squash, firing: incidents, err := config.Cachet.SearchIncidents(componentID)
SearchFiring(p) ==
    /\ pc[p] = "searchFiring"
    /\ \E ok \in BOOLEAN :
          LET found == IF ok THEN SearchIncidents(incidents, ComponentID(p)) ELSE <<>>
          IN  /\ Log(p, Call("SearchIncidents", idx[p], "", ComponentID(p), 0, 0, 0,
                             NoMsg, ok, found))
              /\ IF ~ok
                 THEN Abort(p, BackendErr("SearchIncidents")) /\ UNCHANGED incs
                 ELSE /\ incs' = [incs EXCEPT ![p] = found]
                      /\ IF ShouldCreate(found) THEN Goto(p, "createFiring")
                                                ELSE Advance(p)
    /\ UNCHANGED <<squash, incidents, req, status, list, alreadyFired, minutes>>

\* config.Cachet.CreateIncident(name, componentID, status, componentStatus)
DoCreate(p) ==
    /\ \E ok \in BOOLEAN :
          /\ Log(p, Call("CreateIncident", idx[p], Name(p), ComponentID(p), 0,
                         status[p], status[p], NoMsg, ok, <<>>))
          /\ IF ok
             THEN /\ incidents' = CreateIncident(incidents, ComponentID(p), status[p])
                  /\ Advance(p)
             ELSE /\ Abort(p, BackendErr("CreateIncident"))
                  /\ UNCHANGED incidents
    /\ UNCHANGED <<squash, locals>>

\* squash, firing: the create after the search
CreateFiring(p) == pc[p] = "createFiring" /\ DoCreate(p)

\* no squash: a new incident for every first-seen component
CreateNoSquash(p) == pc[p] = "createNoSquash" /\ DoCreate(p)

\* mutant: a resolved alert without incident is skipped silently
NoIncidentSkip(p) == Advance(p)
\* mutant: the error is written but the loop goes on
NoIncidentNoReturn(p) == AbortNoReturn(p, NoIncidentMsg(ComponentID(p)))
\* len(incidents) == 0: the error "No incident found for component %d"
NoIncident(p) == Abort(p, NoIncidentMsg(ComponentID(p)))

\* squash, resolved: incidents, err := config.Cachet.SearchIncidents(componentID)
SearchResolved(p) ==
    /\ pc[p] = "searchResolved"
    /\ \E ok \in BOOLEAN :
          LET found == IF ok THEN SearchIncidents(incidents, ComponentID(p)) ELSE <<>>
          IN  /\ Log(p, Call("SearchIncidents", idx[p], "", ComponentID(p), 0, 0, 0,
                             NoMsg, ok, found))
              /\ IF ~ok
                 THEN Abort(p, BackendErr("SearchIncidents")) /\ UNCHANGED incs
                 ELSE IF Len(found) = 0
                 THEN NoIncident(p) /\ UNCHANGED incs
                 ELSE /\ incs' = [incs EXCEPT ![p] = found]
                      /\ Goto(p, "update")
    /\ UNCHANGED <<squash, incidents, req, status, list, alreadyFired, minutes>>

\* mutant: the oldest incident of the search result is taken
IncidentIDOldest(p) == incs[p][Len(incs[p])].id
\* incidentID := incidents[0].Id
IncidentID(p) == incs[p][1].id

\* config.Cachet.UpdateIncident(name, componentID, incidents[0].Id, status, "... as up")
\* its error is dropped
UpdateFirst(p) ==
    /\ pc[p] = "update"
    /\ \E ok \in BOOLEAN :
          /\ Log(p, Call("UpdateIncident", idx[p], Name(p), ComponentID(p),
                         IncidentID(p), status[p], 0, UpMsg(Name(p)), ok, <<>>))
          /\ incidents' = IF ok THEN UpdateIncident(incidents, IncidentID(p), status[p])
                          ELSE incidents
    /\ Goto(p, "read")
    /\ UNCHANGED <<squash, locals>>

\* incident, err := config.Cachet.ReadIncident(incidentID), then the two time.Parse
ReadBack(p) ==
    /\ pc[p] = "read"
    /\ \E ok \in BOOLEAN, created \in Stamps, updated \in Stamps :
          LET incident  == ReadIncident(incidents, IncidentID(p), created, updated)
              createdAt == Parse(incident.createdAt)
              updatedAt == Parse(incident.updatedAt)
          IN  /\ Log(p, Call("ReadIncident", idx[p], "", 0, IncidentID(p), 0, 0, NoMsg,
                             ok, IF ok THEN <<incident>> ELSE <<>>))
              /\ IF ok /\ BothParsed(createdAt, updatedAt)
                 THEN /\ minutes' = [minutes EXCEPT ![p] = DownMinutes(createdAt, updatedAt)]
                      /\ Goto(p, "updateAgain")
                 ELSE /\ Advance(p)
                      /\ UNCHANGED minutes
    /\ UNCHANGED <<squash, incidents, req, status, list, alreadyFired, incs>>

\* config.Cachet.UpdateIncident(..., "... as up (service was down for %d minutes)")
\* its error is dropped
UpdateAgain(p) ==
    /\ pc[p] = "updateAgain"
    /\ \E ok \in BOOLEAN :
          /\ Log(p, Call("UpdateIncident", idx[p], Name(p), ComponentID(p),
                         IncidentID(p), status[p], 0, UpForMsg(Name(p), minutes[p]),
                         ok, <<>>))
          /\ incidents' = IF ok THEN UpdateIncident(incidents, IncidentID(p), status[p])
                          ELSE incidents
    /\ Advance(p)
    /\ UNCHANGED <<squash, locals>>

\* SubmitAlert returns: its locals are gone (the last dedup map stays in
\* memory until the next request makes its own)
Return(p) ==
    /\ pc[p] = "done"
    /\ pc' = [pc EXCEPT ![p] = "idle"]
    /\ req' = [req EXCEPT ![p] = NoPayload]
    /\ status' = [status EXCEPT ![p] = Resolved]
    /\ list' = [list EXCEPT ![p] = NoList]
    /\ idx' = [idx EXCEPT ![p] = 0]
    /\ incs' = [incs EXCEPT ![p] = <<>>]
    /\ minutes' = [minutes EXCEPT ![p] = 0]
    /\ result' = [result EXCEPT ![p] = NoResult]
    /\ writes' = [writes EXCEPT ![p] = 0]
    /\ calls' = [calls EXCEPT ![p] = <<>>]
    /\ UNCHANGED <<squash, incidents, alreadyFired, backendFailed>>

Step(p) ==
    \/ RejectAuth(p)
    \/ RejectBody(p)
    \/ Accept(p)
    \/ ListComponents(p)
    \/ Finish(p)
    \/ SkipUnknown(p)
    \/ SkipDuplicate(p)
    \/ Dispatch(p)
    \/ SearchFiring(p)
    \/ CreateFiring(p)
    \/ CreateNoSquash(p)
    \/ SearchResolved(p)
    \/ UpdateFirst(p)
    \/ ReadBack(p)
    \/ UpdateAgain(p)
    \/ Return(p)

\* requests are served one at a time
Next == \E p \in Serial : Step(p)

Spec == Init /\ [][Next]_vars

\* one call of SubmitAlert, from the request's arrival to its response
Invocation(p) ==
    \/ RejectAuth(p)
    \/ RejectBody(p)
    \/ Accept(p)
    \/ ListComponents(p)
    \/ Finish(p)
    \/ SkipUnknown(p)
    \/ SkipDuplicate(p)
    \/ Dispatch(p)
    \/ SearchFiring(p)
    \/ CreateFiring(p)
    \/ CreateNoSquash(p)
    \/ SearchResolved(p)
    \/ UpdateFirst(p)
    \/ ReadBack(p)
    \/ UpdateAgain(p)

\* router.POST("/alert", ...): the server runs every request's handler in a
\* goroutine of its own; two requests are delivered and their backend calls
\* interleave freely, with no lock around them
NextConcurrent == \E p \in Procs : Invocation(p)

SpecConcurrent == Init /\ [][NextConcurrent]_vars

\* a handler that has started runs on: SubmitAlert is straight-line code
\* around one loop over the alerts, and every backend call returns
Continue(p) == pc[p] # "idle" /\ Invocation(p)

SpecFair == Init /\ [][Next]_vars /\ \A p \in Serial : WF_vars(Continue(p))

\* ------------------------------------------------------------ properties
\* the positions of a request's call log
CallIdx(p) == 1..Len(calls[p])
\* the calls that change an incident
Mutations == {"CreateIncident", "UpdateIncident"}
\* the number of open incidents (status 4) of a component
OpenCount(comp) ==
    Cardinality({k \in 1..Len(incidents) :
                   incidents[k].comp = comp /\ incidents[k].status = Firing})
\* the backend's incident with this id is closed
Closed(inc) == \E k \in 1..Len(incidents) :
                  incidents[k].id = inc /\ incidents[k].status = Resolved
\* a successful SearchIncidents call of the squash firing branch
IsFiringSearch(p, k) ==
    /\ squash /\ status[p] = Firing
    /\ calls[p][k].op = "SearchIncidents" /\ calls[p][k].ok
\* a successful SearchIncidents call of the squash resolved branch
IsResolvedSearch(p, k) ==
    /\ squash /\ status[p] = Resolved
    /\ calls[p][k].op = "SearchIncidents" /\ calls[p][k].ok
\* the call after position k is the CreateIncident of the same alert, or the
\* request is about to issue it
CreateFollows(p, k) ==
    \/ k = Len(calls[p]) /\ pc[p] = "createFiring"
    \/ /\ k < Len(calls[p])
       /\ calls[p][k + 1].op = "CreateIncident"
       /\ calls[p][k + 1].alert = calls[p][k].alert
       /\ calls[p][k + 1].comp = calls[p][k].comp
\* the request has left the alert at position a behind
Past(p, a) == pc[p] = "done" \/ idx[p] > a

\* C1: in squash mode, while requests are served one at a time from an empty
\* backend and no backend call has failed, every component has at most one
\* open incident.
C1_AtMostOneOpen ==
    (squash /\ ~backendFailed) => \A comp \in Components : OpenCount(comp) <= 1

\* C2, first half: a firing alert whose search finds no incident is followed
\* by exactly one CreateIncident(name, id, 4, 4), and an invocation whose
\* calls all succeeded reports success.
C2_CreatesOnce ==
    \A p \in Procs : \A k \in CallIdx(p) :
        (IsFiringSearch(p, k) /\ calls[p][k].ret = <<>>) =>
            /\ CreateFollows(p, k)
            /\ \A j \in CallIdx(p) :
                  (calls[p][j].op = "CreateIncident" /\ calls[p][j].comp = calls[p][k].comp)
                     => /\ j = k + 1
                        /\ calls[p][j].name = req[p].alerts[calls[p][k].alert]
                        /\ calls[p][j].comp = Directory[calls[p][j].name]
                        /\ calls[p][j].status = 4 /\ calls[p][j].cstatus = 4
            /\ (pc[p] = "done" /\ \A j \in CallIdx(p) : calls[p][j].ok)
                  => result[p].code = StatusOK

\* C2, second half: a firing alert for a component that has an open incident
\* causes no CreateIncident call.
C2_NoCreateWhileOpen ==
    \A p \in Procs : \A k \in CallIdx(p) :
        (IsFiringSearch(p, k)
           /\ \E i \in 1..Len(calls[p][k].ret) : calls[p][k].ret[i].status = Firing)
        => /\ pc[p] # "createFiring"
           /\ \A j \in CallIdx(p) :
                 ~(calls[p][j].op = "CreateIncident" /\ calls[p][j].comp = calls[p][k].comp)

\* C2: in squash mode a firing alert for a component without incidents causes
\* exactly one CreateIncident(name, id, 4, 4) and success, and a further firing
\* alert for the component while that incident is open causes no create.
C2_OneCreatePerOutage == C2_CreatesOnce /\ C2_NoCreateWhileOpen

\* C3: in squash mode a firing alert for a component whose most recent
\* incident is closed (status 1) causes a new incident to be created.
C3_CreatesAfterClosed ==
    \A p \in Procs : \A k \in CallIdx(p) :
        (IsFiringSearch(p, k) /\ Len(calls[p][k].ret) > 0
           /\ calls[p][k].ret[1].status = Resolved)
        => CreateFollows(p, k)

\* the alert at position a names no component of the directory
UnknownAt(p, a) == req[p].alerts[a] \notin DOMAIN Directory
\* the alert at position a is the first of the batch that resolves to its component
FirstSeen(p, a) ==
    /\ ~UnknownAt(p, a)
    /\ \A j \in 1..(a - 1) :
          UnknownAt(p, j) \/ Directory[req[p].alerts[j]] # Directory[req[p].alerts[a]]

\* C4: within one invocation only the first alert that resolves to a component
\* id triggers incident calls for it; later alerts of the same id trigger none,
\* and the component is searched, created and read at most once.
C4_DedupPerInvocation ==
    \A p \in Procs : \A k \in CallIdx(p) :
        calls[p][k].alert > 0 =>
            /\ FirstSeen(p, calls[p][k].alert)
            /\ \A j \in CallIdx(p) :
                  (calls[p][j].op = calls[p][k].op /\ calls[p][j].op # "UpdateIncident"
                     /\ Directory[req[p].alerts[calls[p][j].alert]]
                          = Directory[req[p].alerts[calls[p][k].alert]])
                  => j = k

\* C4 witness: a batch naming the same component twice was served to the end
\* and the first of the two alerts issued incident calls.
C4_Witness ==
    \E p \in Procs :
        /\ pc[p] = "done" /\ result[p].code = StatusOK
        /\ Len(req[p].alerts) = 2
        /\ ~UnknownAt(p, 1) /\ req[p].alerts[1] = req[p].alerts[2]
        /\ \E k \in CallIdx(p) : calls[p][k].alert = 1

\* no backend call is issued for an alert of an unknown component
C5_NoCallForUnknown ==
    \A p \in Procs : \A k \in CallIdx(p) :
        calls[p][k].alert > 0 => ~UnknownAt(p, calls[p][k].alert)

\* C5: an alert whose label value is no key of the directory causes no backend
\* call; the step that handles it leaves the incidents, the call log and the
\* result as they are and moves the loop on to the next alert.
C5_UnknownLabelSkipped ==
    /\ []C5_NoCallForUnknown
    /\ [][\A p \in Procs :
            (/\ pc[p] = "loop" /\ idx[p] <= Len(req[p].alerts)
             /\ UnknownAt(p, idx[p])
             /\ <<pc[p], idx[p]>>' # <<pc[p], idx[p]>>)
            => /\ incidents' = incidents
               /\ calls'[p] = calls[p]
               /\ result'[p] = result[p]
               /\ pc'[p] = "loop"
               /\ idx'[p] = idx[p] + 1]_vars

\* C5 witness: a batch whose first alert names an unknown component was served
\* with success and its second alert issued incident calls.
C5_Witness ==
    \E p \in Procs :
        /\ pc[p] = "done" /\ result[p].code = StatusOK
        /\ Len(req[p].alerts) = 2 /\ UnknownAt(p, 1)
        /\ \E k \in CallIdx(p) : calls[p][k].alert = 2

\* C6: in squash mode a resolved alert whose search returns no incident ends
\* the invocation with the error "No incident found for component <id>\n", and
\* neither that alert nor a later one issues a create or an update.
C6_ResolvedWithoutIncident ==
    \A p \in Procs : \A k \in CallIdx(p) :
        (IsResolvedSearch(p, k) /\ calls[p][k].ret = <<>>) =>
            /\ k = Len(calls[p])
            /\ pc[p] = "done"
            /\ result[p].code = StatusBadRequest
            /\ result[p].msg.text = "No incident found for component %d\n"
            /\ result[p].msg.n = calls[p][k].comp
            /\ \A j \in CallIdx(p) :
                  calls[p][j].alert >= calls[p][k].alert
                     => calls[p][j].op \notin Mutations

\* C6 witness: a resolved batch of two alerts stopped at its first alert with
\* the error naming component 42.
C6_Witness ==
    \E p \in Procs :
        /\ squash /\ req[p].status = "resolved" /\ pc[p] = "done"
        /\ Len(req[p].alerts) = 2 /\ idx[p] = 1
        /\ result[p].msg = NoIncidentMsg(42)
        /\ calls[p][Len(calls[p])].ret = <<>>

\* the update calls a request issued for the alert at position a
UpdatesFor(p, a) ==
    {j \in CallIdx(p) : calls[p][j].op = "UpdateIncident" /\ calls[p][j].alert = a}
\* time.Parse accepts the timestamp (tabulated over the timestamps in use)
InLayout == [s \in Stamps |-> Parse(s).ok]
\* the ReadIncident call at position k succeeded and both timestamps of the
\* incident it returned are in the layout "2006-01-02 15:04:05"
ReadParses(p, k) ==
    IF calls[p][k].ok
    THEN InLayout[calls[p][k].ret[1].createdAt] /\ InLayout[calls[p][k].ret[1].updatedAt]
    ELSE FALSE
\* the call at position k is an update of incident inc to status 1 for alert a
IsClosingUpdate(p, k, a, inc) ==
    /\ calls[p][k].op = "UpdateIncident" /\ calls[p][k].alert = a
    /\ calls[p][k].inc = inc /\ calls[p][k].status = 1

\* C7: in squash mode a resolved alert whose search returns an open incident
\* first issues one UpdateIncident setting that incident to status 1, then a
\* ReadIncident of it, then a second UpdateIncident (status 1, same incident)
\* exactly when the read succeeded and both timestamps parse; no other update
\* is issued for the alert, and once an update went through the incident is
\* closed when the alert is done.
C7_ResolveOpenIncident ==
    \A p \in Procs : \A k \in CallIdx(p) :
        (IsResolvedSearch(p, k) /\ Len(calls[p][k].ret) > 0
           /\ calls[p][k].ret[1].status = Firing)
        => LET a   == calls[p][k].alert
               inc == calls[p][k].ret[1].id
               n   == Len(calls[p])
           IN  /\ (n = k) => pc[p] = "update"
               /\ (n > k) => /\ IsClosingUpdate(p, k + 1, a, inc)
                             /\ calls[p][k + 1].msg = UpMsg(req[p].alerts[a])
               /\ (n = k + 1) => pc[p] = "read"
               /\ (n > k + 1) => /\ calls[p][k + 2].op = "ReadIncident"
                                 /\ calls[p][k + 2].inc = inc
                                 /\ calls[p][k + 2].alert = a
               /\ (n = k + 2) => ((pc[p] = "updateAgain") <=> ReadParses(p, k + 2))
               /\ (n > k + 2) =>
                     /\ (calls[p][k + 3].alert = a) <=> ReadParses(p, k + 2)
                     /\ (calls[p][k + 3].alert = a) => IsClosingUpdate(p, k + 3, a, inc)
               /\ UpdatesFor(p, a) \subseteq {k + 1, k + 3}
               /\ Past(p, a) =>
                     /\ Cardinality(UpdatesFor(p, a))
                           = (IF ReadParses(p, k + 2) THEN 2 ELSE 1)
                     /\ (\E j \in UpdatesFor(p, a) : calls[p][j].ok) => Closed(inc)

\* C7 witness: a resolved invocation found an open incident, updated it twice
\* (both timestamps parsed) and ended with success, the incident closed.
C7_Witness ==
    \E p \in Procs : \E k \in CallIdx(p) :
        /\ IsResolvedSearch(p, k) /\ req[p].status = "resolved"
        /\ Len(calls[p][k].ret) > 0 /\ calls[p][k].ret[1].status = Firing
        /\ pc[p] = "done" /\ result[p].code = StatusOK
        /\ Cardinality(UpdatesFor(p, calls[p][k].alert)) = 2
        /\ Closed(calls[p][k].ret[1].id)

\* C8: with squash mode off, every first-seen resolved component of an
\* invocation gets exactly one CreateIncident(name, id, status, status) with the
\* derived status, no other alert gets a call and no incident is searched, read
\* or updated, whatever the backend holds from earlier invocations.
C8_NoSquashCreates ==
    ~squash =>
      \A p \in Procs :
        /\ \A k \in CallIdx(p) :
              k >= 2 =>
                 /\ calls[p][k].op = "CreateIncident"
                 /\ FirstSeen(p, calls[p][k].alert)
                 /\ calls[p][k].name = req[p].alerts[calls[p][k].alert]
                 /\ calls[p][k].comp = Directory[calls[p][k].name]
                 /\ calls[p][k].status = (IF req[p].status = "firing" THEN 4 ELSE 1)
                 /\ calls[p][k].cstatus = calls[p][k].status
        /\ \A a \in 1..Len(req[p].alerts) :
              (FirstSeen(p, a) /\ idx[p] > a)
                 => Cardinality({k \in CallIdx(p) : calls[p][k].alert = a}) = 1

\* C8 witness: a successful firing invocation created an incident for a
\* component that already had one from an earlier invocation.
C8_Witness ==
    \E p \in Procs : \E k \in CallIdx(p) :
        /\ ~squash /\ pc[p] = "done" /\ result[p].code = StatusOK
        /\ req[p].status = "firing" /\ Len(req[p].alerts) = 1
        /\ calls[p][k].op = "CreateIncident" /\ calls[p][k].ok
        /\ Len(SearchIncidents(incidents, calls[p][k].comp)) >= 2

\* C9: a failing UpdateIncident or ReadIncident call in the squash resolved
\* branch ends the invocation with that error and no later backend call.
C9_UpdateReadFailureFatal ==
    \A p \in Procs : \A k \in CallIdx(p) :
        (squash /\ calls[p][k].op \in {"UpdateIncident", "ReadIncident"}
           /\ ~calls[p][k].ok)
        => /\ k = Len(calls[p])
           /\ pc[p] = "done"
           /\ result[p] = [code |-> StatusBadRequest, msg |-> BackendErr(calls[p][k].op)]

\* a failed SearchIncidents or CreateIncident call is the last call of its
\* invocation, which stops at that alert and reports the call's error; what
\* the calls before it created or closed is in the backend
C10_FailedCallLast ==
    \A p \in Procs : \A k \in CallIdx(p) :
        (calls[p][k].op \in {"SearchIncidents", "CreateIncident"} /\ ~calls[p][k].ok)
        => /\ k = Len(calls[p])
           /\ pc[p] = "done"
           /\ idx[p] = calls[p][k].alert
           /\ result[p] = [code |-> StatusBadRequest, msg |-> BackendErr(calls[p][k].op)]
           /\ \A comp \in Components :
                 Len(SearchIncidents(incidents, comp))
                    >= Cardinality({j \in CallIdx(p) :
                          /\ calls[p][j].op = "CreateIncident"
                          /\ calls[p][j].ok /\ calls[p][j].comp = comp})
           /\ \A j \in CallIdx(p) :
                 (calls[p][j].op = "UpdateIncident" /\ calls[p][j].ok)
                    => Closed(calls[p][j].inc)

\* C10: when a SearchIncidents or CreateIncident call fails, the invocation
\* reports that error and issues no further backend call; the failing step and
\* the return after it leave every incident as it is (nothing is rolled back).
C10_FailFastNoRollback ==
    /\ []C10_FailedCallLast
    /\ [][\A p \in Procs :
            /\ (/\ Len(calls'[p]) = Len(calls[p]) + 1
                /\ calls'[p][Len(calls'[p])].op \in {"SearchIncidents", "CreateIncident"}
                /\ ~calls'[p][Len(calls'[p])].ok)
               => incidents' = incidents
            /\ (pc[p] = "done" /\ pc'[p] # "done")
               => (pc'[p] = "idle" /\ incidents' = incidents)]_vars

\* C10 witness: the create of the first alert went through, the create of the
\* second alert failed, the invocation ended with that error and the first
\* alert's incident is in the backend.
C10_Witness ==
    \E p \in Procs :
        /\ pc[p] = "done" /\ result[p].code = StatusBadRequest
        /\ Len(calls[p]) = 3 /\ idx[p] = 2
        /\ calls[p][2].op = "CreateIncident" /\ calls[p][2].ok /\ calls[p][2].alert = 1
        /\ calls[p][3].op = "CreateIncident" /\ ~calls[p][3].ok /\ calls[p][3].alert = 2
        /\ Len(SearchIncidents(incidents, calls[p][2].comp)) >= 1


\* the request has a bound payload
Bound(p) == req[p].status # ""
\* the CreateIncident calls of a request
CreateCalls(p) == {k \in CallIdx(p) : calls[p][k].op = "CreateIncident"}

\* C11 as stated: "resolved" gives code 1 and every other payload status
\* gives code 4, and every CreateIncident call carries that code as incident
\* status and as component status.
C11_EveryOtherStatusFires ==
    \A p \in Procs : Bound(p) =>
        LET code == IF req[p].status = "resolved" THEN 1 ELSE 4
        IN  /\ status[p] = code
            /\ \A k \in CreateCalls(p) :
                  calls[p][k].status = code /\ calls[p][k].cstatus = code

\* C11, amended: "firing" gives code 4 and every other payload status gives
\* code 1, and every CreateIncident call carries that code as incident status
\* and as component status.
C11_OnlyFiringFires ==
    \A p \in Procs : Bound(p) =>
        LET code == IF req[p].status = "firing" THEN 4 ELSE 1
        IN  /\ status[p] = code
            /\ \A k \in CreateCalls(p) :
                  calls[p][k].status = code /\ calls[p][k].cstatus = code

\* a payload whose status is neither "firing" nor "resolved" has created an
\* incident with code 1, and a "firing" one has created one with code 4
C11_Witness ==
    /\ req[1].status = "pending"
    /\ \E k \in CreateCalls(1) :
          calls[1][k].ok /\ calls[1][k].status = 1 /\ calls[1][k].cstatus = 1
    /\ \E i \in 1..Len(incidents) : incidents[i].status = Firing

\* the ReadIncident call at position k succeeded and CreatedAt or UpdatedAt of
\* the incident it returned is not in the layout
ParseFailedAt(p, k) ==
    /\ calls[p][k].op = "ReadIncident" /\ calls[p][k].ok
    /\ ~ReadParses(p, k)
\* the call at position k made the request report an error
Fatal(p, k) ==
    \/ ~calls[p][k].ok /\ calls[p][k].op \in {"SearchIncidents", "CreateIncident"}
    \/ /\ calls[p][k].ok /\ calls[p][k].op = "SearchIncidents" /\ calls[p][k].ret = <<>>
       /\ squash /\ status[p] = Resolved

\* C12, in every state: after a re-read whose timestamps do not parse no
\* further call is made for that alert (no second update), the incident the
\* first update closed is closed, the request has moved on to the next alert,
\* and an error it reports comes from a call made for a later alert.
C12_NoSecondUpdate ==
    \A p \in Procs : \A k \in CallIdx(p) :
        ParseFailedAt(p, k) =>
            LET a == calls[p][k].alert
                n == Len(calls[p])
            IN  /\ (n = k) => pc[p] # "updateAgain"
                /\ \A j \in CallIdx(p) : j > k => calls[p][j].alert > a
                /\ IsClosingUpdate(p, k - 1, a, calls[p][k].inc)
                /\ calls[p][k - 1].ok => Closed(calls[p][k].inc)
                /\ Past(p, a)
                /\ (pc[p] = "done" /\ result[p].code = StatusBadRequest)
                      => (n > k /\ calls[p][n].alert > a /\ Fatal(p, n))
                /\ (pc[p] = "done" /\ result[p].code = StatusOK)
                      => idx[p] = Len(req[p].alerts) + 1

\* C12: in the squash-mode resolved branch, when CreatedAt or UpdatedAt of the
\* re-read incident fails to parse, no second UpdateIncident is issued, the
\* closing done by the first update is kept, the step writes no result and
\* goes on to the next alert, and the invocation reports an error only for a
\* failure of a later alert.
C12_ParseFailureTolerated ==
    /\ []C12_NoSecondUpdate
    /\ [][\A p \in Procs :
            (/\ Len(calls'[p]) = Len(calls[p]) + 1
             /\ ParseFailedAt(p, Len(calls[p]))')
            => /\ pc'[p] = "loop" /\ idx'[p] = idx[p] + 1
               /\ incidents' = incidents
               /\ result' = result /\ writes' = writes]_vars

\* C12 witness: the re-read incident of the first alert had a timestamp in
\* another layout, there was one update for it, the incident is closed, and
\* the second alert was then handled and the invocation ended with success.
C12_Witness ==
    \E p \in Procs : \E k \in CallIdx(p) :
        /\ ParseFailedAt(p, k) /\ calls[p][k].alert = 1
        /\ Cardinality(UpdatesFor(p, 1)) = 1
        /\ calls[p][k - 1].ok /\ Closed(calls[p][k].inc)
        /\ \E j \in CallIdx(p) : calls[p][j].alert = 2 /\ calls[p][j].op = "UpdateIncident"
        /\ pc[p] = "done" /\ result[p].code = StatusOK

\* the requests of both handlers searched the component comp in the squash
\* firing branch and both searches came back empty, at positions k and l
BothFoundNone(comp, k, l) ==
    /\ k \in CallIdx(1) /\ l \in CallIdx(2)
    /\ IsFiringSearch(1, k) /\ calls[1][k].comp = comp /\ calls[1][k].ret = <<>>
    /\ IsFiringSearch(2, l) /\ calls[2][l].comp = comp /\ calls[2][l].ret = <<>>
\* the CreateIncident call after the search at position k went through
Created(p, k) ==
    /\ k < Len(calls[p])
    /\ calls[p][k + 1].op = "CreateIncident" /\ calls[p][k + 1].ok

\* C13: with two invocations running concurrently in squash mode, when the
\* SearchIncidents calls of both for the same component return no incident
\* (so both returned before either CreateIncident), each invocation goes on
\* to its CreateIncident call, and once both creates went through the
\* component has two open incidents.
C13_BothSearchThenBothCreate ==
    \A comp \in Components :
        \A k \in CallIdx(1) : \A l \in CallIdx(2) :
            BothFoundNone(comp, k, l) =>
                /\ CreateFollows(1, k) /\ CreateFollows(2, l)
                /\ (Created(1, k) /\ Created(2, l)) => OpenCount(comp) >= 2

\* C13 witness: both invocations carried a firing alert for component 42,
\* both searches found nothing, both created an incident and reported
\* success, and component 42 has two open incidents.
C13_Witness ==
    \E k \in CallIdx(1) : \E l \in CallIdx(2) :
        /\ BothFoundNone(42, k, l)
        /\ Created(1, k) /\ Created(2, l)
        /\ pc[1] = "done" /\ result[1].code = StatusOK
        /\ pc[2] = "done" /\ result[2].code = StatusOK
        /\ OpenCount(42) = 2

\* the ListComponents calls of a request
ListCalls(p) == {k \in CallIdx(p) : calls[p][k].op = "ListComponents"}

\* C14: an invocation that reads a payload calls ListComponents exactly once,
\* as its first backend call; when that call fails the invocation ends with
\* the backend's error and makes no SearchIncidents, CreateIncident,
\* UpdateIncident or ReadIncident call.
C14_ListOnceFirst ==
    \A p \in Procs :
        /\ ~Bound(p) => calls[p] = <<>>
        /\ Bound(p) =>
              /\ ListCalls(p) \subseteq {1}
              /\ (pc[p] = "list") <=> (calls[p] = <<>>)
              /\ (calls[p] # <<>>) => ListCalls(p) = {1}
              /\ (calls[p] # <<>> /\ ~calls[p][1].ok) =>
                    /\ Len(calls[p]) = 1
                    /\ pc[p] = "done"
                    /\ result[p] = [code |-> StatusBadRequest,
                                    msg |-> BackendErr("ListComponents")]

\* C14 witness: incidents exist, a payload with two alerts for known
\* components was read, ListComponents failed, and the invocation ended with
\* that error after this one call.
C14_Witness ==
    \E p \in Procs :
        /\ Len(req[p].alerts) = 2
        /\ \A a \in 1..2 : ~UnknownAt(p, a)
        /\ Len(incidents) > 0
        /\ Len(calls[p]) = 1 /\ calls[p][1].op = "ListComponents" /\ ~calls[p][1].ok
        /\ pc[p] = "done" /\ result[p].code = StatusBadRequest

\* the CreateIncident and UpdateIncident calls of a request
MutationCalls(p) == {k \in CallIdx(p) : calls[p][k].op \in Mutations}
\* the call at position j is a successful search of the component that the
\* call at position k is made for
SearchedFor(p, j, k) ==
    /\ calls[p][j].op = "SearchIncidents" /\ calls[p][j].ok
    /\ calls[p][j].comp = calls[p][k].comp
\* the mutation at position k is the one the search right before it decided
DecidedBySearch(p, k) ==
    /\ k > 1
    /\ SearchedFor(p, k - 1, k)
    /\ calls[p][k - 1].alert = calls[p][k].alert
    /\ LET found == calls[p][k - 1].ret
       IN  IF calls[p][k].op = "CreateIncident"
           THEN Len(found) = 0 \/ found[1].status = 4
           ELSE Len(found) > 0 /\ calls[p][k].inc = found[1].id
\* the mutation at position k is the second update of an incident: it follows
\* the searched first update and the re-read of the same incident
EnrichingUpdate(p, k) ==
    /\ k > 3
    /\ calls[p][k].op = "UpdateIncident"
    /\ calls[p][k - 1].op = "ReadIncident" /\ ReadParses(p, k - 1)
    /\ calls[p][k - 1].inc = calls[p][k].inc
    /\ calls[p][k - 2].op = "UpdateIncident" /\ DecidedBySearch(p, k - 2)
    /\ calls[p][k - 2].inc = calls[p][k].inc
    /\ calls[p][k - 2].alert = calls[p][k].alert

\* C15 as stated: in squash mode every CreateIncident or UpdateIncident call
\* has, earlier in the same invocation and with no other mutation in between,
\* a successful SearchIncidents call for the same component.
C15_SearchBeforeEveryMutation ==
    squash =>
        \A p \in Procs : \A k \in MutationCalls(p) :
            \E j \in 1..(k - 1) :
                /\ SearchedFor(p, j, k)
                /\ \A m \in (j + 1)..(k - 1) : m \notin MutationCalls(p)

\* C15, amended: in squash mode every CreateIncident call and every first
\* UpdateIncident call of an alert comes right after a successful
\* SearchIncidents call for the same component and is decided by that result
\* alone; the only other mutation is the second update, which follows the
\* first update and the re-read of the same incident without a new search.
C15_SearchBeforeFirstMutation ==
    squash =>
        \A p \in Procs : \A k \in MutationCalls(p) :
            \/ DecidedBySearch(p, k)
            \/ EnrichingUpdate(p, k)

\* C15 witness: one invocation made a searched create for component 42; a
\* later one searched, updated, re-read and updated again, the second update
\* with no search after the first.
C15_Witness ==
    \E p \in Procs : \E k \in MutationCalls(p) :
        /\ squash
        /\ EnrichingUpdate(p, k) /\ ~DecidedBySearch(p, k)
        /\ DecidedBySearch(p, k - 2)
        /\ calls[p][k].comp = 42
        /\ \E i \in 1..Len(incidents) : incidents[i].comp = 42

\* the call at position k failed: the backend returned an error, or the
\* resolved branch found no incident to close
Failing(p, k) ==
    \/ ~calls[p][k].ok
    \/ /\ squash /\ status[p] = Resolved
       /\ calls[p][k].op = "SearchIncidents" /\ calls[p][k].ret = <<>>
\* the error the failing call at position k stands for
ErrorOf(p, k) ==
    IF ~calls[p][k].ok THEN BackendErr(calls[p][k].op) ELSE NoIncidentMsg(calls[p][k].comp)
\* the positions of a request's failing calls
FailingCalls(p) == {k \in CallIdx(p) : Failing(p, k)}

\* C16, first half: the calls of an invocation are made alert by alert in
\* payload order, none for an alert the loop has not reached.
C16_PayloadOrder ==
    \A p \in Procs : \A k \in CallIdx(p) :
        /\ calls[p][k].alert <= idx[p]
        /\ \A j \in 1..(k - 1) : calls[p][j].alert <= calls[p][k].alert

\* C16: the alerts of a batch are handled one at a time in payload order: the
\* backend calls for the alert at position i are all made before any call for
\* a later alert, and an invocation in which calls failed reports the error
\* of the earliest failing one.
C16_EarliestFailureReported ==
    /\ C16_PayloadOrder
    /\ \A p \in Procs :
          (pc[p] = "done" /\ FailingCalls(p) # {}) =>
              LET first == CHOOSE k \in FailingCalls(p) : \A j \in FailingCalls(p) : k <= j
              IN  result[p] = [code |-> StatusBadRequest, msg |-> ErrorOf(p, first)]

\* the handler is between its arrival and its response
Busy(p) == pc[p] \notin {"idle", "done"}
\* the call at position k made the invocation write an error
Reported(p, k) ==
    \/ Fatal(p, k)
    \/ calls[p][k].op = "ListComponents" /\ ~calls[p][k].ok
\* how far the handler is from its response: the alerts still to go, and
\* within an alert the calls still to go
Rank(p) ==
    CASE pc[p] = "loop" -> 7
      [] pc[p] \in {"searchFiring", "searchResolved", "createNoSquash"} -> 6
      [] pc[p] \in {"createFiring", "update"} -> 5
      [] pc[p] = "read" -> 4
      [] pc[p] = "updateAgain" -> 3
      [] OTHER -> 0
Remaining(p) ==
    CASE pc[p] \in {"idle", "done"} -> 0
      [] pc[p] = "list" -> 8 * (Len(req[p].alerts) + 2)
      [] OTHER -> 8 * (Len(req[p].alerts) + 1 - idx[p]) + Rank(p)

\* C17, in every state: a handler has written nothing before its response
\* and exactly one result at it; the result is an error or a success;
\* success is written only when the loop ran past the last alert and no call
\* made the invocation report an error.
C17_OneResult ==
    \A p \in Procs :
        /\ writes[p] \in {0, 1}
        /\ (pc[p] = "done") <=> (writes[p] = 1)
        /\ (writes[p] = 0) <=> (result[p] = NoResult)
        /\ (writes[p] = 1) => result[p].code \in {StatusOK, StatusBadRequest}
        /\ (result[p].code = StatusOK) =>
              /\ Bound(p) /\ idx[p] = Len(req[p].alerts) + 1
              /\ \A k \in CallIdx(p) : ~Reported(p, k)
        /\ (result[p].code = StatusBadRequest /\ Bound(p)) =>
              Reported(p, Len(calls[p]))
        /\ Busy(p) => Remaining(p) > 0

\* C17, in every step: a busy handler's step brings it closer to its
\* response, and a written result is not written over before the handler
\* returns.
C17_StepsTowardsResult ==
    \A p \in Procs :
        /\ (Busy(p) /\ <<pc[p], idx[p], calls[p]>>' # <<pc[p], idx[p], calls[p]>>)
              => Remaining(p)' < Remaining(p)
        /\ (pc[p] = "done" /\ pc'[p] = "done")
              => (result'[p] = result[p] /\ writes'[p] = writes[p])

\* C17: every invocation terminates and writes exactly one result, an error
\* or a success and never both or neither; the success result is written
\* only after the loop over all alerts finished without a reported error.
C17_TerminatesWithOneResult ==
    /\ []C17_OneResult
    /\ [][C17_StepsTowardsResult]_vars
    /\ \A p \in Procs : Busy(p) ~> (pc[p] = "done")

\* C17 witness: an invocation whose first alert was handled and whose second
\* alert failed has ended with exactly one result, the error, after an
\* earlier invocation had ended with exactly one result, success.
C17_Witness ==
    \E p \in Procs :
        /\ pc[p] = "done" /\ writes[p] = 1
        /\ result[p].code = StatusBadRequest
        /\ idx[p] = 2 /\ Len(req[p].alerts) = 2
        /\ Reported(p, Len(calls[p]))
        /\ Len(incidents) > 0

\* C18, in every state: every UpdateIncident call carries status 1.
C18_UpdatesOnlyClose ==
    \A p \in Procs : \A k \in CallIdx(p) :
        calls[p][k].op = "UpdateIncident" => calls[p][k].status = 1

\* C18, in every step: every incident of the backend is still there, for the
\* same component, and one that had status 1 has status 1.
C18_IncidentsKept ==
    /\ Len(incidents') >= Len(incidents)
    /\ \A i \in 1..Len(incidents) : \E j \in 1..Len(incidents') :
          /\ incidents'[j].id = incidents[i].id
          /\ incidents'[j].comp = incidents[i].comp
          /\ (incidents[i].status = 1) => (incidents'[j].status = 1)

\* C18: no incident is deleted or re-opened: every UpdateIncident call
\* carries status 1, the set of incidents only grows, and an incident with
\* status 1 keeps status 1.
C18_NeverDeletesNorReopens ==
    /\ []C18_UpdatesOnlyClose
    /\ [][C18_IncidentsKept]_vars

\* C18 witness: an update with status 1 went through, the incident is closed,
\* the backend holds a second incident for the same component that is open,
\* and the invocation ended with success.
C18_Witness ==
    \E p \in Procs : \E k \in CallIdx(p) :
        /\ calls[p][k].op = "UpdateIncident" /\ calls[p][k].ok
        /\ calls[p][k].status = 1 /\ Closed(calls[p][k].inc)
        /\ OpenCount(calls[p][k].comp) >= 1
        /\ pc[p] = "done" /\ result[p].code = StatusOK

\* the request is one of squash mode with the resolved status
SquashResolved(p) == squash /\ Bound(p) /\ status[p] = Resolved
\* the position of the request's latest SearchIncidents call (0: none yet)
LastSearch(p) ==
    LET S == {k \in CallIdx(p) : calls[p][k].op = "SearchIncidents"}
    IN  IF S = {} THEN 0 ELSE CHOOSE k \in S : \A j \in S : j <= k
\* incident inc is the first one of the request's latest search result
FirstFound(p, inc) ==
    /\ LastSearch(p) > 0
    /\ calls[p][LastSearch(p)].ok
    /\ Len(calls[p][LastSearch(p)].ret) > 0
    /\ calls[p][LastSearch(p)].ret[1].id = inc

\* C19, in every state: a squash-mode resolved invocation makes no
\* CreateIncident call; each of its updates is for the first incident of the
\* alert's search result and carries status 1; and when that first incident
\* is already closed the update is made all the same.
C19_UpdatesFirstFound ==
    \A p \in Procs : SquashResolved(p) =>
        /\ pc[p] \notin {"createFiring", "createNoSquash", "searchFiring"}
        /\ \A k \in CallIdx(p) :
              /\ calls[p][k].op # "CreateIncident"
              /\ calls[p][k].op = "UpdateIncident" =>
                    \E j \in 1..(k - 1) :
                        /\ IsResolvedSearch(p, j)
                        /\ calls[p][j].alert = calls[p][k].alert
                        /\ calls[p][j].comp = calls[p][k].comp
                        /\ Len(calls[p][j].ret) > 0
                        /\ calls[p][j].ret[1].id = calls[p][k].inc
                        /\ calls[p][k].status = 1
              /\ (IsResolvedSearch(p, k) /\ Len(calls[p][k].ret) > 0
                    /\ calls[p][k].ret[1].status = Resolved) =>
                    /\ (k = Len(calls[p])) => pc[p] = "update"
                    /\ (k < Len(calls[p])) =>
                          IsClosingUpdate(p, k + 1, calls[p][k].alert, calls[p][k].ret[1].id)

\* C19, in every step of a squash-mode resolved invocation: no incident is
\* added or removed, and an incident that changes is the first one of the
\* alert's search result, set to status 1; every other incident of the
\* component and every incident of another component stays as it is.
C19_OnlyFirstFoundChanges ==
    \A p \in Procs :
        (SquashResolved(p) /\ calls'[p] # calls[p]) =>
            /\ Len(incidents') = Len(incidents)
            /\ \A i \in 1..Len(incidents) :
                  \/ incidents'[i] = incidents[i]
                  \/ /\ FirstFound(p, incidents[i].id)
                     /\ incidents[i].comp = calls[p][LastSearch(p)].comp
                     /\ incidents'[i] = [incidents[i] EXCEPT !.status = 1]

\* C19: in squash mode a resolved alert for a component never causes a
\* CreateIncident call and changes at most the first incident of the search
\* result for the component; all other incidents are left unchanged, also
\* when the first incident is already closed, which is then updated again
\* with status 1.
C19_ResolvedTouchesFirstOnly ==
    /\ []C19_UpdatesFirstFound
    /\ [][C19_OnlyFirstFoundChanges]_vars

\* C19 witness: the search of a resolved alert returned two incidents of the
\* component, the first already closed and the second open; the first was
\* updated again with status 1 and the second is still open.
C19_Witness ==
    \E p \in Procs : \E k \in CallIdx(p) :
        /\ IsResolvedSearch(p, k)
        /\ Len(calls[p][k].ret) >= 2
        /\ calls[p][k].ret[1].status = Resolved
        /\ calls[p][k].ret[2].status = Firing
        /\ k < Len(calls[p])
        /\ IsClosingUpdate(p, k + 1, calls[p][k].alert, calls[p][k].ret[1].id)
        /\ calls[p][k + 1].ok
        /\ SearchIncidents(incidents, calls[p][k].comp) = calls[p][k].ret
        /\ pc[p] = "done" /\ result[p].code = StatusOK
====
